---- MODULE Spec2Model ----
(***************************************************************************)
(* Content-analysis library of libs/social.py: the pure text functions     *)
(* (clean_text, summarize_content, contains_keywords,                      *)
(* basic_sentiment_analysis, identify_platform and the regex extractors)   *)
(* over texts represented as sequences of one-character strings.           *)
(***************************************************************************)
EXTENDS Integers, Sequences, FiniteSets, TLC

VARIABLES content, max_length, keywords, called, result, raised

vars == <<content, max_length, keywords, called, result, raised>>

(* ------------------------- characters -------------------------------- *)

LowerLetters ==
  <<"a", "b", "c", "d", "e", "f", "g", "h", "i", "j", "k", "l", "m", "n", "o", "p", "q", "r", "s", "t", "u", "v", "w", "x", "y", "z">>

UpperLetters ==
  <<"A", "B", "C", "D", "E", "F", "G", "H", "I", "J", "K", "L", "M", "N", "O", "P", "Q", "R", "S", "T", "U", "V", "W", "X", "Y", "Z">>

Digits == {"0", "1", "2", "3", "4", "5", "6", "7", "8", "9"}

\* str.isspace / regex \s on the characters the model uses
Whitespace == {" ", "\t", "\n", "\r", "\f"}

IsLower(c) == \E i \in 1..26 : LowerLetters[i] = c

IsUpper(c) == \E i \in 1..26 : UpperLetters[i] = c

IsLetter(c) == IsLower(c) \/ IsUpper(c)

IsAlnum(c) == IsLetter(c) \/ c \in Digits

\* regex \w : letters, digits and the underscore
IsWord(c) == IsAlnum(c) \/ c = "_"

IsSpace(c) == c \in Whitespace

\* str.lower() on one character
LowerChar(c) ==
  IF IsUpper(c) THEN LowerLetters[CHOOSE i \in 1..26 : UpperLetters[i] = c] ELSE c

\* str.lower()
str_lower(s) == [i \in 1..Len(s) |-> LowerChar(s[i])]

\* Python "sub in s"
str_in(sub, s) ==
  \E i \in 0..(Len(s) - Len(sub)) : SubSeq(s, i + 1, i + Len(sub)) = sub

\* Python s[:n], negative n counting from the end
slice_to(s, n) ==
  IF n >= 0
  THEN SubSeq(s, 1, IF n < Len(s) THEN n ELSE Len(s))
  ELSE SubSeq(s, 1, IF Len(s) + n > 0 THEN Len(s) + n ELSE 0)

(* ------------------------- clean_text -------------------------------- *)

\* str.split() with no separator: the maximal runs of non-whitespace
RECURSIVE split_from(_, _, _, _)
split_from(s, i, cur, acc) ==
  IF i > Len(s)
  THEN IF cur = <<>> THEN acc ELSE Append(acc, cur)
  ELSE IF IsSpace(s[i])
       THEN split_from(s, i + 1, <<>>, IF cur = <<>> THEN acc ELSE Append(acc, cur))
       ELSE split_from(s, i + 1, Append(cur, s[i]), acc)

str_split(s) == split_from(s, 1, <<>>, <<>>)

\* sep.join(parts)
RECURSIVE str_join(_, _)
str_join(sep, parts) ==
  IF parts = <<>> THEN <<>>
  ELSE IF Len(parts) = 1 THEN parts[1]
  ELSE parts[1] \o sep \o str_join(sep, Tail(parts))

\* the characters the pattern [^\w\s.,!?-] does not match
KeptByCleanPattern(c) == IsWord(c) \/ IsSpace(c) \/ c \in {".", ",", "!", "?", "-"}

\* re.sub(r'[^\w\s.,!?-]', '', s)
re_sub_special(s) == SelectSeq(s, KeptByCleanPattern)

\* str.strip()
str_strip(s) ==
  LET keep == {i \in 1..Len(s) : ~IsSpace(s[i])}
  IN  IF keep = {} THEN <<>>
      ELSE SubSeq(s, CHOOSE i \in keep : \A j \in keep : i <= j,
                     CHOOSE i \in keep : \A j \in keep : i >= j)

\* the two passes in the other order: the characters are removed first, the
\* whitespace collapsed afterwards
clean_text_filter_first(c) ==
  str_strip(str_join(<<" ">>, str_split(re_sub_special(c))))

clean_text(c) == str_strip(re_sub_special(str_join(<<" ">>, str_split(c))))

(* ------------------------- summarize_content ------------------------- *)

Ellipsis == <<".", ".", ".">>

\* s.split(' ', 1)[0] in place of rsplit: what precedes the first space
split_head(s) ==
  LET sp == {i \in 1..Len(s) : s[i] = " "}
  IN  IF sp = {} THEN s
      ELSE SubSeq(s, 1, (CHOOSE i \in sp : \A j \in sp : i <= j) - 1)

\* s.rsplit(' ', 1)[0]: what precedes the last space, or s when it has none
rsplit_head(s) ==
  LET sp == {i \in 1..Len(s) : s[i] = " "}
  IN  IF sp = {} THEN s
      ELSE SubSeq(s, 1, (CHOOSE i \in sp : \A j \in sp : i >= j) - 1)

\* the same summary with < in place of <= in the length test
summarize_strict(c, n) ==
  IF Len(c) < n THEN c ELSE rsplit_head(slice_to(c, n)) \o Ellipsis

summarize_content(c, n) ==
  IF Len(c) <= n THEN c ELSE rsplit_head(slice_to(c, n)) \o Ellipsis

(* ------------------------- contains_keywords ------------------------- *)

\* a list of pairs in place of the dict: an entry is added for every keyword
pairs_append(d, k, v) == Append(d, [key |-> k, value |-> v])

\* d[k] = v on an insertion-ordered dict, kept as a sequence of entries
dict_set(d, k, v) ==
  IF \E i \in 1..Len(d) : d[i].key = k
  THEN [i \in 1..Len(d) |-> IF d[i].key = k THEN [key |-> k, value |-> v] ELSE d[i]]
  ELSE Append(d, [key |-> k, value |-> v])

\* {keyword: keyword.lower() in content_lower for keyword in keywords}
RECURSIVE keyword_dict(_, _, _)
keyword_dict(content_lower, kws, d) ==
  IF kws = <<>> THEN d
  ELSE keyword_dict(content_lower, Tail(kws),
                    dict_set(d, Head(kws), str_in(str_lower(Head(kws)), content_lower)))

contains_keywords(c, kws) == keyword_dict(str_lower(c), kws, <<>>)

(* ------------------------- basic_sentiment_analysis ------------------ *)

\* get_sentiment_keywords()['positive']
PositiveWords ==
  << <<"g", "o", "o", "d">>,
     <<"g", "r", "e", "a", "t">>,
     <<"e", "x", "c", "e", "l", "l", "e", "n", "t">>,
     <<"a", "m", "a", "z", "i", "n", "g">>,
     <<"a", "w", "e", "s", "o", "m", "e">>,
     <<"l", "o", "v", "e">>,
     <<"b", "e", "s", "t">>,
     <<"w", "o", "n", "d", "e", "r", "f", "u", "l">> >>

\* get_sentiment_keywords()['negative']
NegativeWords ==
  << <<"b", "a", "d">>,
     <<"t", "e", "r", "r", "i", "b", "l", "e">>,
     <<"a", "w", "f", "u", "l">>,
     <<"h", "a", "t", "e">>,
     <<"w", "o", "r", "s", "t">>,
     <<"h", "o", "r", "r", "i", "b", "l", "e">>,
     <<"d", "i", "s", "a", "p", "p", "o", "i", "n", "t", "i", "n", "g">>,
     <<"p", "o", "o", "r">> >>

\* SOCIAL_PLATFORMS, in the insertion order the dict iterates in
SOCIAL_PLATFORMS ==
  << [platform |-> "twitter", domain |-> <<"t", "w", "i", "t", "t", "e", "r", ".", "c", "o", "m">>],
     [platform |-> "facebook", domain |-> <<"f", "a", "c", "e", "b", "o", "o", "k", ".", "c", "o", "m">>],
     [platform |-> "instagram", domain |-> <<"i", "n", "s", "t", "a", "g", "r", "a", "m", ".", "c", "o", "m">>],
     [platform |-> "linkedin", domain |-> <<"l", "i", "n", "k", "e", "d", "i", "n", ".", "c", "o", "m">>],
     [platform |-> "reddit", domain |-> <<"r", "e", "d", "d", "i", "t", ".", "c", "o", "m">>],
     [platform |-> "youtube", domain |-> <<"y", "o", "u", "t", "u", "b", "e", ".", "c", "o", "m">>] >>

\* s.count(sub): the non-overlapping occurrences of a non-empty sub from pos on
RECURSIVE str_count_from(_, _, _)
str_count_from(sub, s, pos) ==
  IF pos + Len(sub) - 1 > Len(s) THEN 0
  ELSE IF SubSeq(s, pos, pos + Len(sub) - 1) = sub
       THEN 1 + str_count_from(sub, s, pos + Len(sub))
       ELSE str_count_from(sub, s, pos + 1)

\* sum(content_lower.count(word) for word in words) in place of the
\* containment test: every occurrence scores
RECURSIVE count_occurrences_hits(_, _)
count_occurrences_hits(words, content_lower) ==
  IF words = <<>> THEN 0
  ELSE str_count_from(Head(words), content_lower, 1)
       + count_occurrences_hits(Tail(words), content_lower)

\* sum(1 for word in words if word in content_lower)
RECURSIVE count_hits(_, _)
count_hits(words, content_lower) ==
  IF words = <<>> THEN 0
  ELSE (IF str_in(Head(words), content_lower) THEN 1 ELSE 0)
       + count_hits(Tail(words), content_lower)

\* the same analysis without content.lower()
sentiment_case_sensitive(c) ==
  LET positive_count == count_hits(PositiveWords, c)
      negative_count == count_hits(NegativeWords, c)
  IN  IF positive_count > negative_count THEN "positive"
      ELSE IF negative_count > positive_count THEN "negative"
      ELSE "neutral"

basic_sentiment_analysis(c) ==
  LET content_lower == str_lower(c)
      positive_count == count_hits(PositiveWords, content_lower)
      negative_count == count_hits(NegativeWords, content_lower)
  IN  IF positive_count > negative_count THEN "positive"
      ELSE IF negative_count > positive_count THEN "negative"
      ELSE "neutral"

(* ------------------------- identify_platform ------------------------- *)

\* the loop without its early return: the last hit of the table wins
RECURSIVE platform_last_from(_, _)
platform_last_from(url_lower, k) ==
  IF k > Len(SOCIAL_PLATFORMS) THEN "unknown"
  ELSE LET later == platform_last_from(url_lower, k + 1)
       IN  IF later # "unknown" THEN later
           ELSE IF str_in(SOCIAL_PLATFORMS[k].domain, url_lower)
                THEN SOCIAL_PLATFORMS[k].platform
                ELSE "unknown"

\* for platform, domain in SOCIAL_PLATFORMS.items(): first hit returns
RECURSIVE platform_from(_, _)
platform_from(url_lower, k) ==
  IF k > Len(SOCIAL_PLATFORMS) THEN "unknown"
  ELSE IF str_in(SOCIAL_PLATFORMS[k].domain, url_lower)
       THEN SOCIAL_PLATFORMS[k].platform
       ELSE platform_from(url_lower, k + 1)

identify_platform(url) == platform_from(str_lower(url), 1)

(* ------------------------- regex extractors -------------------------- *)

\* regex \b between s[p] and s[p+1] (p = 0 is the start, p = Len(s) the end)
WordBoundary(s, p) ==
  (p >= 1 /\ IsWord(s[p])) # (p < Len(s) /\ IsWord(s[p + 1]))

\* [A-Za-z0-9._%+-]
IsLocalChar(c) == IsAlnum(c) \/ c \in {".", "_", "%", "+", "-"}

\* [A-Za-z0-9.-]
IsDomainChar(c) == IsAlnum(c) \/ c \in {".", "-"}

\* [A-Z|a-z]
IsTldChar(c) == IsLetter(c) \/ c = "|"

\* the characters the negated class of the url pattern matches (the double
\* quote and the backquote, which the class also excludes, are not characters
\* of any modelled text)
IsUrlChar(c) ==
  ~IsSpace(c) /\ c \notin {"<", ">", "{", "}", "|", "\\", "^", "[", "]"}

\* membership of a character in a character class of the patterns
InClass(cls, c) ==
  CASE cls = "local" -> IsLocalChar(c)
    [] cls = "domain" -> IsDomainChar(c)
    [] cls = "tld" -> IsTldChar(c)
    [] cls = "word" -> IsWord(c)
    [] cls = "url" -> IsUrlChar(c)

\* the last index of the maximal run of characters of the class that starts
\* at i (i - 1 when s[i] is not of the class): what a greedy + consumes
RunEnd(s, i, cls) ==
  CHOOSE e \in (i - 1)..Len(s) :
    /\ \A k \in i..e : InClass(cls, s[k])
    /\ e = Len(s) \/ ~InClass(cls, s[e + 1])

\* The ways \b[A-Za-z0-9._%+-]+@[A-Za-z0-9.-]+\.[A-Z|a-z]{2,}\b matches at i:
\* <<xe, ye, te>> = last index of the local part, of the domain part before
\* the final dot, and of the top-level label.
email_matches(s, i) ==
  IF i < 1 \/ i > Len(s) \/ ~WordBoundary(s, i - 1) THEN {}
  ELSE
    UNION { UNION { { <<xe, ye, te>> :
                      te \in {t \in (ye + 3)..RunEnd(s, ye + 2, "tld") :
                                WordBoundary(s, t)} } :
                    ye \in {y \in (xe + 2)..RunEnd(s, xe + 2, "domain") :
                              y + 1 <= Len(s) /\ s[y + 1] = "."} } :
            xe \in {x \in i..RunEnd(s, i, "local") :
                      x + 1 <= Len(s) /\ s[x + 1] = "@"} }

\* greedy quantifiers backtrack innermost first: the match the engine
\* reports is the lexicographically greatest <<xe, ye, te>>
Lex3Before(a, b) ==
  \/ a[1] < b[1]
  \/ a[1] = b[1] /\ a[2] < b[2]
  \/ a[1] = b[1] /\ a[2] = b[2] /\ a[3] <= b[3]

\* inclusive end of the match at i, 0 when the pattern does not match there
email_match_end(s, i) ==
  LET ms == email_matches(s, i)
  IN  IF ms = {} THEN 0
      ELSE (CHOOSE m \in ms : \A o \in ms : Lex3Before(o, m))[3]

\* re.findall(email_pattern, content): leftmost matches, scanning resumes
\* after each match
RECURSIVE findall_email(_, _)
findall_email(s, pos) ==
  IF pos > Len(s) THEN <<>>
  ELSE LET e == email_match_end(s, pos)
       IN  IF e = 0 THEN findall_email(s, pos + 1)
           ELSE <<SubSeq(s, pos, e)>> \o findall_email(s, e + 1)

extract_emails(c) == findall_email(c, 1)

\* the pattern without its group: the whole match, sigil included, is returned
RECURSIVE findall_whole_match(_, _, _)
findall_whole_match(sigil, s, pos) ==
  IF pos >= Len(s) THEN <<>>
  ELSE IF s[pos] = sigil /\ IsWord(s[pos + 1])
       THEN LET e == RunEnd(s, pos + 1, "word")
            IN  <<SubSeq(s, pos, e)>> \o findall_whole_match(sigil, s, e + 1)
       ELSE findall_whole_match(sigil, s, pos + 1)

\* re.findall of sigil(\w+): the group, for each leftmost greedy match
RECURSIVE findall_tagged(_, _, _)
findall_tagged(sigil, s, pos) ==
  IF pos >= Len(s) THEN <<>>
  ELSE IF s[pos] = sigil /\ IsWord(s[pos + 1])
       THEN LET e == RunEnd(s, pos + 1, "word")
            IN  <<SubSeq(s, pos + 1, e)>> \o findall_tagged(sigil, s, e + 1)
       ELSE findall_tagged(sigil, s, pos + 1)

extract_hashtags(c) == findall_tagged("#", c, 1)

extract_mentions(c) == findall_tagged("@", c, 1)

\* inclusive end of the match of the url pattern, https?:// and one or more
\* url characters, at i; 0 when the pattern does not match there
url_match_end(s, i) ==
  LET starts == {j \in {i + 4, i + 5} :
                   /\ j + 3 <= Len(s)
                   /\ SubSeq(s, i, i + 3) = <<"h", "t", "t", "p">>
                   /\ j = i + 5 => s[i + 4] = "s"
                   /\ SubSeq(s, j, j + 2) = <<":", "/", "/">>
                   /\ IsUrlChar(s[j + 3])}
  IN  IF starts = {} THEN 0
      ELSE RunEnd(s, (CHOOSE j \in starts : \A o \in starts : o <= j) + 3, "url")

RECURSIVE findall_url(_, _)
findall_url(s, pos) ==
  IF pos > Len(s) THEN <<>>
  ELSE LET e == url_match_end(s, pos)
       IN  IF e = 0 THEN findall_url(s, pos + 1)
           ELSE <<SubSeq(s, pos, e)>> \o findall_url(s, e + 1)

extract_urls(c) == findall_url(c, 1)

(* ------------------------- inputs ------------------------------------ *)

\* every text of at most n characters of the alphabet
Texts(alphabet, n) == UNION {[1..k -> alphabet] : k \in 0..n}

\* the concatenation of a sequence of texts
RECURSIVE Flatten(_)
Flatten(parts) == IF parts = <<>> THEN <<>> ELSE Head(parts) \o Flatten(Tail(parts))

\* every text made of at most n of the given fragments
Phrases(fragments, n) == {Flatten(p) : p \in Texts(fragments, n)}

\* longest text given to clean_text
MaxLen == 5

CleanAlphabet == {"a", " ", "\t", "@", "_"}

\* longest text given to summarize_content, and the most negative max_length
MaxSumLen == 4

MaxNegative == 2

SummaryAlphabet == {"a", "b", " "}

MaxLengths == (0 - MaxNegative)..(MaxSumLen + 1)

\* longest text and longest keyword list given to contains_keywords
MaxKwLen == 3

MaxKeywords == 2

KeywordAlphabet == {"a", "b", "B"}

KeywordChoices == {<<"a">>, <<"a", "b">>, <<"A", "b">>}

\* most fragments in a text given to basic_sentiment_analysis
MaxWords == 3

\* lexicon words in lower, mixed and upper case, some followed by a space
SentimentFragments ==
  { <<"g", "o", "o", "d", " ">>,
    <<"b", "a", "d">>,
    <<"a", "m", "a", "z", "i", "n", "g", " ">>,
    <<"t", "e", "r", "r", "i", "b", "l", "e">>,
    <<"L", "o", "v", "e", " ">>,
    <<"H", "A", "T", "E">> }

\* most fragments in a url given to identify_platform
MaxParts == 2

\* the six domains, a scheme and a domain in mixed case
UrlFragments ==
  { <<"t", "w", "i", "t", "t", "e", "r", ".", "c", "o", "m">>,
    <<"f", "a", "c", "e", "b", "o", "o", "k", ".", "c", "o", "m">>,
    <<"i", "n", "s", "t", "a", "g", "r", "a", "m", ".", "c", "o", "m">>,
    <<"l", "i", "n", "k", "e", "d", "i", "n", ".", "c", "o", "m">>,
    <<"r", "e", "d", "d", "i", "t", ".", "c", "o", "m">>,
    <<"y", "o", "u", "t", "u", "b", "e", ".", "c", "o", "m">>,
    <<"h", "t", "t", "p", "s", ":", "/", "/">>,
    <<"T", "w", "i", "t", "t", "e", "r", ".", "C", "O", "M">> }

\* longest text given to extract_emails
MaxEmailLen == 6

EmailAlphabet == {"a", "@", ".", "|"}

\* longest text given to extract_hashtags and extract_mentions
MaxTagLen == 4

TagAlphabet == {"#", "@", "a", "_", " "}

\* longest text of the calls made with any keyword list and any max_length >= 0
MaxShortLen == 1

\* the keywords of KeywordChoices and the empty keyword
AnyKeywordChoices == KeywordChoices \cup {<<>>}

\* longest text given to clean_text when its passes are compared
MaxPipeLen == 5

PipelineAlphabet == {"a", " ", "\t", "@"}

\* def summarize_content(content, max_length: int = 100)
DefaultMaxLength == 100

(* ------------------------- the caller -------------------------------- *)

\* The library keeps no state of its own: the state is a caller's arguments
\* (content, max_length, keywords), the function it called last, the value
\* that call returned and whether it raised instead of returning.
InitWith(contents, lengths, keywordLists) ==
  /\ content \in contents
  /\ max_length \in lengths
  /\ keywords \in keywordLists
  /\ called = "none"
  /\ result = <<>>
  /\ raised = FALSE

Init == InitWith(Texts(CleanAlphabet, MaxLen), {DefaultMaxLength}, {<<>>})

InitSummarize == InitWith(Texts(SummaryAlphabet, MaxSumLen), MaxLengths, {<<>>})

InitKeywords ==
  InitWith(Texts(KeywordAlphabet, MaxKwLen), {DefaultMaxLength},
           Texts(KeywordChoices, MaxKeywords))

InitSentiment ==
  InitWith(Phrases(SentimentFragments, MaxWords), {DefaultMaxLength}, {<<>>})

InitPlatform == InitWith(Phrases(UrlFragments, MaxParts), {DefaultMaxLength}, {<<>>})

InitEmails == InitWith(Texts(EmailAlphabet, MaxEmailLen), {DefaultMaxLength}, {<<>>})

InitTags == InitWith(Texts(TagAlphabet, MaxTagLen), {DefaultMaxLength}, {<<>>})

InitShort ==
  InitWith(Texts(KeywordAlphabet, MaxShortLen), 0..MaxSumLen,
           Texts(AnyKeywordChoices, MaxKeywords))

InitPipeline ==
  InitWith(Texts(PipelineAlphabet, MaxPipeLen), {DefaultMaxLength}, {<<>>})

\* none of the functions has a raise statement, and none of the str, list and
\* re operations they use raises on str arguments: every call returns
Return(fn, value) ==
  /\ called' = fn
  /\ result' = value
  /\ raised' = FALSE
  /\ UNCHANGED <<content, max_length, keywords>>

CleanText == Return("clean_text", clean_text(content))

SummarizeContent == Return("summarize_content", summarize_content(content, max_length))

ContainsKeywords == Return("contains_keywords", contains_keywords(content, keywords))

BasicSentimentAnalysis ==
  Return("basic_sentiment_analysis", basic_sentiment_analysis(content))

IdentifyPlatform == Return("identify_platform", identify_platform(content))

ExtractEmails == Return("extract_emails", extract_emails(content))

ExtractUrls == Return("extract_urls", extract_urls(content))

ExtractHashtags == Return("extract_hashtags", extract_hashtags(content))

ExtractMentions == Return("extract_mentions", extract_mentions(content))

Next ==
  \/ CleanText
  \/ SummarizeContent
  \/ ContainsKeywords
  \/ BasicSentimentAnalysis
  \/ IdentifyPlatform
  \/ ExtractEmails
  \/ ExtractUrls
  \/ ExtractHashtags
  \/ ExtractMentions

Spec == Init /\ [][Next]_vars

SpecSummarize == InitSummarize /\ [][Next]_vars

SpecKeywords == InitKeywords /\ [][Next]_vars

SpecSentiment == InitSentiment /\ [][Next]_vars

SpecPlatform == InitPlatform /\ [][Next]_vars

SpecEmails == InitEmails /\ [][Next]_vars

SpecTags == InitTags /\ [][Next]_vars


SpecShort == InitShort /\ [][Next]_vars

SpecPipeline == InitPipeline /\ [][Next]_vars

(* ------------------------- properties -------------------------------- *)

\* C1: clean_text is idempotent: cleaning the text clean_text returned
\* gives that text back.
C1_CleanIdempotent ==
  called = "clean_text" => clean_text(result) = result

AmazingAmazingTerrible ==
  <<"a", "m", "a", "z", "i", "n", "g", " ", "a", "m", "a", "z", "i", "n", "g", " ", "t", "e", "r", "r", "i", "b", "l", "e">>

GoodBad == <<"g", "o", "o", "d", " ", "b", "a", "d">>

\* C2 as stated: "amazing amazing terrible" is classified positive and
\* "good bad" neutral.
C2_RepeatedWordOutweighs ==
  called = "basic_sentiment_analysis" =>
    /\ content = AmazingAmazingTerrible => result = "positive"
    /\ content = GoodBad => result = "neutral"

\* C2 (amended): "amazing amazing terrible" is classified neutral, the
\* repeated word scoring once (P = 1, N = 1), and "good bad" neutral.
C2_RepeatedWordScoresOnce ==
  called = "basic_sentiment_analysis" =>
    /\ content = AmazingAmazingTerrible => result = "neutral"
    /\ content = GoodBad => result = "neutral"

C2_Witness ==
  /\ called = "basic_sentiment_analysis"
  /\ content = AmazingAmazingTerrible
  /\ result = "neutral"

PositiveLexicon == {PositiveWords[i] : i \in 1..Len(PositiveWords)}

NegativeLexicon == {NegativeWords[i] : i \in 1..Len(NegativeWords)}

\* number of words of the lexicon that occur in the lower-cased text
LexiconHits(lexicon, text) ==
  Cardinality({w \in lexicon : str_in(w, str_lower(text))})

\* C3: with P and N the numbers of positive and negative lexicon words the
\* lower-cased text contains, the label is positive iff P > N, negative iff
\* N > P and neutral iff P = N, and it is always one of the three.
C3_LabelFromCounts ==
  called = "basic_sentiment_analysis" =>
    LET P == LexiconHits(PositiveLexicon, content)
        N == LexiconHits(NegativeLexicon, content)
    IN  /\ result \in {"positive", "negative", "neutral"}
        /\ result = "positive" <=> P > N
        /\ result = "negative" <=> N > P
        /\ result = "neutral" <=> P = N

\* a text in which a lexicon word counts only once lower-cased decides the label
C3_Witness ==
  /\ called = "basic_sentiment_analysis"
  /\ result = "negative"
  /\ content # str_lower(content)
  /\ LexiconHits(NegativeLexicon, content) = 2
  /\ LexiconHits(PositiveLexicon, content) = 1

C5_NegativeLengthRaises ==
  (called = "summarize_content" /\ max_length < 0) => raised

\* C6: every character of the text clean_text returns is alphanumeric,
\* whitespace or one of . , ! ? - (so no underscore is left).
C6_OnlyAllowedCharacters ==
  called = "clean_text" =>
    \A i \in 1..Len(result) :
      IsAlnum(result[i]) \/ IsSpace(result[i]) \/ result[i] \in {".", ",", "!", "?", "-"}

\* whether the keyword occurs in the text, both lower-cased
KeywordPresent(kw, text) == str_in(str_lower(kw), str_lower(text))

\* C7 as stated: the report has one entry per element of the keyword list,
\* repeated keywords included, in the list's order, keyed by the keyword as
\* supplied, each flag telling whether the lower-cased keyword occurs in the
\* lower-cased text.
C7_OneEntryPerListElement ==
  called = "contains_keywords" =>
    /\ Len(result) = Len(keywords)
    /\ \A i \in 1..Len(keywords) :
         /\ result[i].key = keywords[i]
         /\ result[i].value = KeywordPresent(keywords[i], content)

\* positions of the list at which a keyword occurs for the first time
FirstOccurrences(kws) == {i \in 1..Len(kws) : \A j \in 1..(i - 1) : kws[j] # kws[i]}

\* C7 (amended): the report has one entry per distinct keyword of the list
\* (keywords that differ only in case are distinct), in the order of their
\* first occurrences, keyed by the keyword as supplied, each flag telling
\* whether the lower-cased keyword occurs in the lower-cased text.
C7_OneEntryPerDistinctKeyword ==
  called = "contains_keywords" =>
    LET first == FirstOccurrences(keywords)
    IN  /\ Len(result) = Cardinality(first)
        /\ \A i \in first :
             LET k == Cardinality({j \in first : j <= i})
             IN  /\ result[k].key = keywords[i]
                 /\ result[k].value = KeywordPresent(keywords[i], content)

\* a repeated keyword has a single entry, and it is found in a text that
\* holds it in another case
C7_Witness ==
  /\ called = "contains_keywords"
  /\ Len(keywords) = 2
  /\ keywords[1] = keywords[2]
  /\ Len(result) = 1
  /\ result[1].value
  /\ ~str_in(keywords[1], content)

\* the table order the platforms are tried in
PlatformOrder == <<"twitter", "facebook", "instagram", "linkedin", "reddit", "youtube">>

\* the platforms whose domain occurs in the lower-cased url, as table positions
DomainHits(url) ==
  {k \in 1..Len(PlatformOrder) :
     \E e \in 1..Len(SOCIAL_PLATFORMS) :
       /\ SOCIAL_PLATFORMS[e].platform = PlatformOrder[k]
       /\ str_in(SOCIAL_PLATFORMS[e].domain, str_lower(url))}

\* C8: identify_platform returns the first platform, in the order twitter,
\* facebook, instagram, linkedin, reddit, youtube, whose domain occurs in the
\* lower-cased url, and "unknown" iff none occurs.
C8_FirstTableEntryWins ==
  called = "identify_platform" =>
    LET hits == DomainHits(content)
    IN  /\ result = "unknown" <=> hits = {}
        /\ hits # {} => result = PlatformOrder[CHOOSE k \in hits : \A j \in hits : k <= j]

YoutubeThenTwitter ==
  <<"y", "o", "u", "t", "u", "b", "e", ".", "c", "o", "m", "t", "w", "i", "t", "t", "e", "r", ".", "c", "o", "m">>

\* in a url where youtube.com comes before twitter.com, twitter is returned
C8_Witness ==
  /\ called = "identify_platform"
  /\ content = YoutubeThenTwitter
  /\ result = "twitter"

\* local-part of [A-Za-z0-9._%+-], the at sign, a domain of [A-Za-z0-9.-]
\* (labels and dots), a dot and a last label of two or more letters
WellFormedEmail(tok) ==
  \E at \in 2..Len(tok), dot \in 3..Len(tok) :
    /\ tok[at] = "@"
    /\ \A i \in 1..(at - 1) : IsLocalChar(tok[i])
    /\ at + 1 < dot
    /\ \A i \in (at + 1)..(dot - 1) : IsDomainChar(tok[i])
    /\ tok[dot] = "."
    /\ dot + 2 <= Len(tok)
    /\ \A i \in (dot + 1)..Len(tok) : IsLetter(tok[i])

\* C9: every token extract_emails returns is a local part, '@', a domain and
\* a top-level label of at least two letters and nothing but letters.
C9_TopLevelLabelIsLetters ==
  called = "extract_emails" => \A k \in 1..Len(result) : WellFormedEmail(result[k])

\* positions of the text where the sigil is followed by a word character
TagStarts(sigil, text) ==
  {i \in 1..(Len(text) - 1) : text[i] = sigil /\ IsWord(text[i + 1])}

\* tokens is, in order, the maximal run of word characters after each
\* position of the text where the sigil is followed by a word character
IsTagList(sigil, text, tokens) ==
  LET starts == TagStarts(sigil, text)
  IN  /\ Len(tokens) = Cardinality(starts)
      /\ \A i \in starts :
           LET tok == tokens[Cardinality({j \in starts : j <= i})]
               last == i + Len(tok)
           IN  /\ Len(tok) >= 1
               /\ last <= Len(text)
               /\ tok = SubSeq(text, i + 1, last)
               /\ \A j \in 1..Len(tok) : IsWord(tok[j])
               /\ last = Len(text) \/ ~IsWord(text[last + 1])

\* C10: extract_hashtags (extract_mentions) returns, for each '#' ('@')
\* followed by word characters, the maximal run of word characters without
\* the '#' ('@'), in order of appearance, repeated tokens kept.
C10_TagsInOrderWithDuplicates ==
  /\ called = "extract_hashtags" => IsTagList("#", content, result)
  /\ called = "extract_mentions" => IsTagList("@", content, result)

\* the same hashtag twice in the text is returned twice
C10_Witness ==
  /\ called = "extract_hashtags"
  /\ Len(result) = 2
  /\ result[1] = result[2]

RECURSIVE CollapseFrom(_, _, _)
CollapseFrom(text, i, out) ==
  IF i > Len(text)
  THEN IF out # <<>> /\ out[Len(out)] = " " THEN SubSeq(out, 1, Len(out) - 1) ELSE out
  ELSE IF text[i] \in Whitespace
       THEN CollapseFrom(text, i + 1,
                         IF out = <<>> \/ out[Len(out)] = " " THEN out ELSE Append(out, " "))
       ELSE CollapseFrom(text, i + 1, Append(out, text[i]))

CollapseAndTrim(text) == CollapseFrom(text, 1, <<>>)

\* second pass: the characters the pattern [^\w\s.,!?-] matches are removed
Removed(c) ==
  ~(\/ IsLetter(c) \/ c \in Digits \/ c = "_"
    \/ c \in Whitespace
    \/ c \in {".", ",", "!", "?", "-"})

RemoveSpecial(text) ==
  LET kept(c) == ~Removed(c) IN SelectSeq(text, kept)

\* the whitespace at both ends taken off, the rest untouched
RECURSIVE TrimEnds(_)
TrimEnds(text) ==
  IF text = <<>> THEN text
  ELSE IF text[1] \in Whitespace THEN TrimEnds(Tail(text))
  ELSE IF text[Len(text)] \in Whitespace THEN TrimEnds(SubSeq(text, 1, Len(text) - 1))
  ELSE text

\* C13 as stated: clean_text is the collapse-and-trim pass followed by the
\* removal pass, with nothing trimmed or collapsed after the removal.
C13_TwoPassesNoFinalTrim ==
  called = "clean_text" => result = RemoveSpecial(CollapseAndTrim(content))

\* C13 (amended): clean_text is the collapse-and-trim pass, then the removal
\* pass, then a trim of the whitespace at both ends; whitespace inside the
\* text is not collapsed again after the removal.
C13_TwoPassesThenTrim ==
  called = "clean_text" => result = TrimEnds(RemoveSpecial(CollapseAndTrim(content)))

\* a removed character at an end leaves whitespace there that the last trim
\* takes off, in front of or behind text that stays
C13_Witness ==
  /\ called = "clean_text"
  /\ result # <<>>
  /\ result # RemoveSpecial(CollapseAndTrim(content))

====
